---- MODULE Spec2Model ----
(***************************************************************************)
(* Consent lifecycle of the CookieDialog widget: the ConsentStorage class  *)
(* (src/storage.ts), the GeolocationService class (src/geolocation.ts) and *)
(* the CookieDialog class (src/index.ts), modelled as one state machine.   *)
(*                                                                         *)
(* JavaScript values are encoded as follows.                               *)
(*   - a ConsentState object is a record with the fields timestamp,        *)
(*     categories, version, reason, locationData;                          *)
(*   - categories is a function from the universe of category ids to       *)
(*     "true" / "false" / "unset" ("unset": the object has no such key);   *)
(*   - an optional string property holds a string, Undefined (the key is   *)
(*     there with the value undefined) or Missing (no such key);           *)
(*   - a localStorage item is a record with a kind: "absent" (getItem      *)
(*     returns null), "garbage" (text JSON.parse rejects), "nullText" (the *)
(*     text "null") or "json" (the text of an object, held in obj).        *)
(***************************************************************************)
EXTENDS Integers, Sequences, FiniteSets, TLC

VARIABLES now, ticks, lsMode, stored, config, cache, cacheTimestamp,
          pc, pend, out, dialogElement, shown, last

vars == <<now, ticks, lsMode, stored, config, cache, cacheTimestamp,
          pc, pend, out, dialogElement, shown, last>>

storeVars == <<lsMode, stored>>
geoVars == <<cache, cacheTimestamp>>
initVars == <<pc, pend, out>>
uiVars == <<dialogElement, shown>>

(***************************************************************************)
(* Bounds of the model.                                                    *)
(***************************************************************************)
MaxTicks == 2
MaxExpiryDays == 2

\* The init() calls the model follows: the page's own, and a second one
\* made while the first is still suspended.
Starts == {"first", "second"}

(***************************************************************************)
(* Program constants.                                                      *)
(***************************************************************************)
STORAGE_VERSION == "1.0.0"
CACHE_DURATION == 3600000
MS_PER_DAY == 24 * 60 * 60 * 1000
T0 == 500000000

Undefined == "undefined"
Missing == "missing"

CatIds == {"necessary", "analytics", "extra"}
Reasons == {"user_accept", "user_reject", "location_not_required"}

\* getDefaultCategories, reduced to the ids and the required flags the
\* consent logic reads, and a second declaration with a second required id.
getDefaultCategories ==
    << [id |-> "necessary", required |-> TRUE],
       [id |-> "analytics", required |-> FALSE] >>

CategoryDeclarations ==
    { getDefaultCategories,
      << [id |-> "necessary", required |-> TRUE],
         [id |-> "analytics", required |-> TRUE] >> }

DeclaredIds(cats) == { cats[i].id : i \in 1..Len(cats) }
RequiredIds(cats) == { cats[i].id : i \in { j \in 1..Len(cats) : cats[j].required } }

(***************************************************************************)
(* ConsentState objects and their JSON text.                               *)
(***************************************************************************)
NoTs == -1

\* The categories of a parsed record that has no categories key.
MissingCats == [ id \in {"necessary", "analytics", "extra"} |-> "missing" ]

NoLocation(state) ==
    [state |-> state, country |-> Missing, region |-> Missing,
     inEU |-> FALSE, detectionMethod |-> Missing]

Null == [kind |-> "null"]

IsNull(x) == x.kind = "null"

Obj(o) == [kind |-> "object", obj |-> o]

Absent == [kind |-> "absent"]

\* JSON.stringify drops every key whose value is undefined.
DropUndefined(s) == IF s = Undefined THEN Missing ELSE s

JSONstringifyLocation(l) ==
    IF l.state = "value"
    THEN [l EXCEPT !.country = DropUndefined(l.country),
                   !.region = DropUndefined(l.region)]
    ELSE NoLocation("missing")

JSONstringify(o) ==
    [kind |-> "json",
     obj |-> [o EXCEPT !.locationData = JSONstringifyLocation(o.locationData)]]

\* Reading a property that the parsed object does not have yields undefined.
ReadProperty(s) == IF s = Missing THEN Undefined ELSE s

BoolOf(cats, id) == cats[id] = "true"

AllTrue(ids) == [ id \in CatIds |-> IF id \in ids THEN "true" ELSE "unset" ]

(***************************************************************************)
(* ConsentStorage (src/storage.ts).  Each method is an operator that       *)
(* returns the method's result together with the localStorage item it      *)
(* leaves.  mode is the behaviour of the localStorage collaborator: "ok",  *)
(* "quota" (setItem throws) or "disabled" (every access throws).           *)
(***************************************************************************)
\* One window for every instance, the widest, in place of this.expiryDays.
ExpiryTimeFixedWindow(o, days) == o.timestamp + (MaxExpiryDays * MS_PER_DAY)

\* Line 21: the window is the expiryDays of the instance that reads.
ExpiryTime(o, days) == o.timestamp + (days * MS_PER_DAY)

\* Date.now() > expiryTime; a missing timestamp makes expiryTime NaN and
\* every comparison with NaN is false.
\* The comparison >= in place of >.
IsExpiredInclusive(o, t, days) ==
    o.timestamp # NoTs /\ t >= ExpiryTime(o, days)

IsExpired(o, t, days) == o.timestamp # NoTs /\ t > ExpiryTime(o, days)

\* removeItem called with a key other than STORAGE_KEY.
clearConsentWrongKey(st, mode) == st

clearConsent(st, mode) ==
    IF mode = "disabled" THEN st ELSE Absent

\* getConsent without the version check of lines 27-31.
getConsentAnyVersion(st, mode, t, days) ==
    IF mode = "disabled" THEN [ret |-> Null, stored |-> st]
    ELSE IF st.kind = "absent" THEN [ret |-> Null, stored |-> st]
    ELSE IF st.kind # "json" THEN [ret |-> Null, stored |-> st]
    ELSE IF IsExpired(st.obj, t, days)
         THEN [ret |-> Null, stored |-> clearConsent(st, mode)]
    ELSE [ret |-> Obj(st.obj), stored |-> st]

getConsent(st, mode, t, days) ==
    IF mode = "disabled" THEN [ret |-> Null, stored |-> st]
    ELSE IF st.kind = "absent" THEN [ret |-> Null, stored |-> st]
    ELSE IF st.kind # "json" THEN [ret |-> Null, stored |-> st]
    ELSE IF IsExpired(st.obj, t, days)
         THEN [ret |-> Null, stored |-> clearConsent(st, mode)]
    ELSE IF st.obj.version # STORAGE_VERSION
         THEN [ret |-> Null, stored |-> clearConsent(st, mode)]
    ELSE [ret |-> Obj(st.obj), stored |-> st]

\* saveConsent returning null from its catch, as updateCategoryConsent does.
saveConsentNullOnFailure(st, mode, t, categories, reason, locationData) ==
    LET consent == [timestamp |-> t, categories |-> categories,
                    version |-> STORAGE_VERSION, reason |-> reason,
                    locationData |-> locationData]
    IN [ret |-> IF mode = "ok" THEN Obj(consent) ELSE Null,
        stored |-> IF mode = "ok" THEN JSONstringify(consent) ELSE st]

saveConsent(st, mode, t, categories, reason, locationData) ==
    LET consent == [timestamp |-> t, categories |-> categories,
                    version |-> STORAGE_VERSION, reason |-> reason,
                    locationData |-> locationData]
    IN [ret |-> Obj(consent),
        stored |-> IF mode = "ok" THEN JSONstringify(consent) ELSE st]

\* hasConsent with === null in place of !== null.
hasConsentInverted(st, mode, t, days) ==
    LET g == getConsent(st, mode, t, days)
    IN [ret |-> IsNull(g.ret), stored |-> g.stored]

hasConsent(st, mode, t, days) ==
    LET g == getConsent(st, mode, t, days)
    IN [ret |-> ~IsNull(g.ret), stored |-> g.stored]

\* Line 73 is outside any try: indexing the categories of a record that
\* has none is a TypeError, which leaves the method.
NoCategories(ret) == ~IsNull(ret) /\ ret.obj.categories = MissingCats

\* A read that rewrites the record it found with a fresh timestamp.
getCategoryConsentRefreshing(st, mode, t, days, categoryId) ==
    LET g == getConsent(st, mode, t, days)
    IN [ret |-> IF IsNull(g.ret) THEN FALSE
                ELSE BoolOf(g.ret.obj.categories, categoryId),
        raised |-> NoCategories(g.ret),
        stored |-> IF IsNull(g.ret) THEN g.stored
                   ELSE [g.stored EXCEPT !.obj.timestamp = t]]

getCategoryConsent(st, mode, t, days, categoryId) ==
    LET g == getConsent(st, mode, t, days)
    IN [ret |-> IF IsNull(g.ret) THEN FALSE
                ELSE BoolOf(g.ret.obj.categories, categoryId),
        raised |-> NoCategories(g.ret),
        stored |-> g.stored]

\* t1 is the clock read by getConsent, t2 the clock read for the new timestamp.
updateCategoryConsent(st, mode, t1, t2, days, categoryId, value) ==
    LET g == getConsent(st, mode, t1, days)
    IN IF IsNull(g.ret)
       THEN [ret |-> Null, raised |-> FALSE, stored |-> g.stored]
       ELSE IF NoCategories(g.ret)  \* line 80, outside the try of line 83
       THEN [ret |-> Null, raised |-> TRUE, stored |-> g.stored]
       ELSE LET consent ==
                  [g.ret.obj EXCEPT
                     !.categories[categoryId] = IF value THEN "true" ELSE "false",
                     !.timestamp = t2]
            IN IF mode = "ok"
               THEN [ret |-> Obj(consent), raised |-> FALSE,
                     stored |-> JSONstringify(consent)]
               ELSE [ret |-> Null, raised |-> FALSE, stored |-> g.stored]

(***************************************************************************)
(* GeolocationService (src/geolocation.ts).                                *)
(***************************************************************************)
DefaultEndpoint == "https://ipapi.co/json/"
CustomEndpoint == "https://api.mysite.com/geolocation"

\* this.endpoint.includes('ipapi.co')
IncludesIpapi(url) == url = DefaultEndpoint

\* constructor: customEndpoint || 'https://ipapi.co/json/'
EndpointOf(customEndpoint) ==
    IF customEndpoint = Undefined THEN DefaultEndpoint ELSE customEndpoint

euCountries ==
    { "AT", "BE", "BG", "HR", "CY", "CZ", "DK", "EE", "FI", "FR",
      "DE", "GR", "HU", "IE", "IT", "LV", "LT", "LU", "MT", "NL",
      "PL", "PT", "RO", "SK", "SI", "ES", "SE", "GB", "IS", "LI", "NO" }

\* A response body that parsed to an object: every field the adapter reads,
\* Missing when the body has no such key.  inEU and in_eu hold "true",
\* "false" or Missing.
Data(cc, name, region, inEU, in_eu, country) ==
    [country_code |-> cc, country_name |-> name, region |-> region,
     inEU |-> inEU, in_eu |-> in_eu, country |-> country]

ResponseData ==
    { Data("DE", "Germany", "Berlin", Missing, Missing, Missing),
      Data("US", "United States", "California", Missing, Missing, Missing),
      Data("UNKNOWN", Missing, Missing, Missing, Missing, Missing),
      Data(Missing, Missing, Missing, Missing, Missing, Missing),
      Data(Missing, Missing, Missing, "true", Missing, "DE"),
      Data(Missing, Missing, Missing, "false", Missing, "US"),
      Data(Missing, Missing, Missing, Missing, "true", "DE"),
      Data(Missing, Missing, Missing, Missing, Missing, "DE") }

\* What the lookup can come back with: fetch rejects ("networkError"), a
\* non-2xx status ("httpError"), a body response.json() rejects ("badJson"),
\* the body null ("nullJson"), or a body that parses to an object ("data").
NoData == Data(Missing, Missing, Missing, Missing, Missing, Missing)

NoResponse == [kind |-> "none", data |-> NoData]

Responses ==
    { [kind |-> k, data |-> NoData] :
          k \in {"networkError", "httpError", "badJson", "nullJson"} }
    \cup { [kind |-> "data", data |-> d] : d \in ResponseData }

GeoResponse(inEU, country, region) ==
    [inEU |-> inEU, country |-> country, region |-> region]

\* The custom branch deciding by the country field, as the default branch
\* decides by country_code.
AdaptResponseByCountry(endpoint, data) ==
    IF IncludesIpapi(endpoint)
    THEN GeoResponse(data.country_code \in euCountries,
                     ReadProperty(data.country_name),
                     ReadProperty(data.region))
    ELSE GeoResponse(data.country \in euCountries,
                     ReadProperty(data.country),
                     ReadProperty(data.region))

\* The result built from a parsed body (lines 32-52).
AdaptResponse(endpoint, data) ==
    IF IncludesIpapi(endpoint)
    THEN GeoResponse(data.country_code \in euCountries,
                     ReadProperty(data.country_name),
                     ReadProperty(data.region))
    ELSE GeoResponse(data.inEU = "true" \/ data.in_eu = "true",
                     ReadProperty(data.country),
                     ReadProperty(data.region))

\* A catch block that answers "consent not required".
FailOpen == GeoResponse(FALSE, Undefined, Undefined)

\* The catch block's result (lines 59-67).
FailSafe == GeoResponse(TRUE, Undefined, Undefined)

\* Does the try block throw on this response?
LookupThrows(resp) == resp.kind # "data"

\* The cache test with <= in place of <.
CacheValidInclusive(c, cts, t) == ~IsNull(c) /\ (t - cts) <= CACHE_DURATION

\* this.cache && (Date.now() - this.cacheTimestamp) < this.CACHE_DURATION
CacheValid(c, cts, t) == ~IsNull(c) /\ (t - cts) < CACHE_DURATION

\* checkLocation caching whatever it returns, the fail-safe result included.
checkLocationCachingFailure(endpoint, c, cts, t, resp) ==
    LET result == IF LookupThrows(resp) THEN FailSafe
                  ELSE AdaptResponse(endpoint, resp.data)
    IN [ret |-> result, cache |-> Obj(result), cacheTimestamp |-> t]

\* checkLocation after the lookup came back at time t: the result and the
\* cache it leaves.
checkLocation(endpoint, c, cts, t, resp) ==
    IF LookupThrows(resp)
    THEN [ret |-> FailSafe, cache |-> c, cacheTimestamp |-> cts]
    ELSE LET result == AdaptResponse(endpoint, resp.data)
         IN [ret |-> result, cache |-> Obj(result), cacheTimestamp |-> t]

(***************************************************************************)
(* CookieDialog (src/index.ts): configuration, hooks and the prompt.       *)
(***************************************************************************)
\* mergeConfig: the defaults, overridden by what the caller supplied.  The
\* four hooks are represented by whether the caller configured them.  The
\* spread copies every key of userConfig, also a key such as locationEndpoint
\* that CookieDialogConfig does not declare and no code reads.
mergeConfig(userConfig) ==
    [enableLocation |-> userConfig.enableLocation,
     autoShow |-> userConfig.autoShow,
     expiryDays |-> userConfig.expiryDays,
     forceShow |-> userConfig.forceShow,
     categories |-> userConfig.categories,
     onAccept |-> userConfig.onAccept,
     onReject |-> userConfig.onReject,
     onChange |-> userConfig.onChange,
     onLocationNotRequired |-> userConfig.onLocationNotRequired,
     geolocationEndpoint |-> userConfig.geolocationEndpoint,
     locationEndpoint |-> userConfig.locationEndpoint]

Configured(cfg, hook) ==
    CASE hook = "onAccept" -> cfg.onAccept
      [] hook = "onReject" -> cfg.onReject
      [] hook = "onChange" -> cfg.onChange
      [] hook = "onLocationNotRequired" -> cfg.onLocationNotRequired

Call(hook, arg) == [hook |-> hook, arg |-> arg]

NoArg == [kind |-> "none"]

\* if (this.config.onX) this.config.onX(...): the calls whose hook is configured.
ConfiguredCalls(cfg, calls) ==
    SelectSeq(calls, LAMBDA c : Configured(cfg, c.hook))

\* A hook is caller code: it returns or throws.  k = 0: every call returns;
\* k > 0: the k-th call throws and the later ones are never made.
ThrowChoices(calls) == 0..Len(calls)

Invoke(calls, k) ==
    [ i \in 1..(IF k = 0 THEN Len(calls) ELSE k) |->
        [hook |-> calls[i].hook, arg |-> calls[i].arg, threw |-> (i = k)] ]

\* show(): an existing dialog element gets the class 'show'; otherwise
\* render() builds it, and renderCategories() calls getCategoryConsent for
\* every declared category, which reads (and may erase) the stored record.
\* The records the prompt is rendered over all carry categories.
show(st, mode, t, cfg, rendered) ==
    [stored |-> IF rendered \/ Len(cfg.categories) = 0 THEN st
                ELSE getConsent(st, mode, t, cfg.expiryDays).stored,
     dialogElement |-> TRUE, shown |-> TRUE]

\* The consent objects the three decisions build.
rejectAllConsent(cfg) ==
    [ id \in CatIds |->
        IF id \in RequiredIds(cfg.categories) THEN "true"
        ELSE IF id \in DeclaredIds(cfg.categories) THEN "false"
        ELSE "unset" ]

\* consent[cat.id] = cat.required in place of consent[cat.id] = true.
acceptAllConsentRequiredOnly(cfg) == rejectAllConsent(cfg)

acceptAllConsent(cfg) == AllTrue(DeclaredIds(cfg.categories))

\* saveSettings reads one checkbox per declared category; render() emits the
\* checkbox of a required category as 'checked disabled'.
Checkboxes(cfg) ==
    { sel \in [CatIds -> {"true", "false", "unset"}] :
        \A id \in CatIds :
            /\ (id \in DeclaredIds(cfg.categories)) = (sel[id] # "unset")
            /\ (id \in RequiredIds(cfg.categories)) => (sel[id] = "true") }

\* The checkbox states saveSettings can find once a script of the page has
\* assigned to checkbox.checked: the disabled attribute that render() emits
\* stops the user's clicks, not an assignment.
ScriptedCheckboxes(cfg) ==
    { sel \in [CatIds -> {"true", "false", "unset"}] :
        \A id \in CatIds :
            (id \in DeclaredIds(cfg.categories)) = (sel[id] # "unset") }

\* The auto-accept path calling saveConsent without its third argument.
LocationDataOmitted(loc) == NoLocation("undefined")

\* Lines 190-195: the locationData init() hands to saveConsent.
LocationData(loc) ==
    [state |-> "value", country |-> loc.country, region |-> loc.region,
     inEU |-> loc.inEU, detectionMethod |-> "ip_geolocation"]

LocationArg(loc) == [kind |-> "location", obj |-> loc]

(***************************************************************************)
(* State.                                                                  *)
(*   now, ticks      Date.now() and the number of times it has advanced    *)
(*   lsMode, stored  the localStorage collaborator and the item under      *)
(*                   STORAGE_KEY                                           *)
(*   config          the merged configuration of the CookieDialog instance *)
(*   cache, cacheTimestamp   fields of the GeolocationService              *)
(*   pc, pend, out   the init() calls: where each one is, the value its    *)
(*                   await resumes with, and what it has done so far       *)
(*                   (url: the URL its fetch() was called with)            *)
(*   dialogElement, shown    the prompt: rendered, and carrying 'show'     *)
(*   last            the last synchronous call made and what it returned   *)
(*                   (seen: what the hook of a decision found)             *)
(***************************************************************************)
NoOut ==
    [path |-> "none", atBegin |-> Null, hooks |-> <<>>, writes |-> 0,
     written |-> Null, lookups |-> 0, result |-> Null, failed |-> FALSE,
     raised |-> FALSE, showCalled |-> FALSE, readAt |-> 0, resp |-> NoResponse,
     url |-> "none"]

NoCats == [ id \in CatIds |-> "unset" ]

\* What a hook finds when it is invoked: the stored item and whether the
\* prompt carries 'show'.
NoSeen == [invoked |-> FALSE, stored |-> Absent, shown |-> FALSE]

Seen(st, sh) == [invoked |-> TRUE, stored |-> st, shown |-> sh]

NoCall ==
    [op |-> "none", categories |-> NoCats, reason |-> "none", id |-> "none",
     value |-> FALSE, ret |-> Null, hooks |-> <<>>, raised |-> FALSE,
     at |-> 0, before |-> Absent, seen |-> NoSeen]

ExpiryMs(cfg) == cfg.expiryDays * MS_PER_DAY

\* Records a previous page view may have left under STORAGE_KEY.
StoredRecord(ts, version, cats) ==
    [kind |-> "json",
     obj |-> [timestamp |-> ts, categories |-> cats, version |-> version,
              reason |-> "user_accept", locationData |-> NoLocation("missing")]]

ScenarioC ==
    [ id \in CatIds |-> CASE id = "necessary" -> "true"
                         [] id = "analytics" -> "false"
                         [] OTHER -> "unset" ]

\* A well-formed record: recent, at the last instant of its window, or of
\* an older schema version.
WellFormedStored(cfg) ==
    { StoredRecord(T0 - 1000, STORAGE_VERSION, ScenarioC),
      StoredRecord(T0 - ExpiryMs(cfg), STORAGE_VERSION, ScenarioC),
      StoredRecord(T0 - 1000, "0.9.0", ScenarioC) }

MalformedStored ==
    { [kind |-> "garbage"],
      [kind |-> "nullText"],
      StoredRecord(NoTs, STORAGE_VERSION, ScenarioC),
      StoredRecord(T0 - 1000, STORAGE_VERSION, MissingCats) }

InitialStored(cfg, malformed) ==
    {Absent} \cup WellFormedStored(cfg)
    \cup { StoredRecord(T0 - 1000, STORAGE_VERSION, rejectAllConsent(cfg)) }
    \cup (IF malformed THEN MalformedStored ELSE {[kind |-> "garbage"]})

UserConfigs ==
    [enableLocation : BOOLEAN, autoShow : BOOLEAN,
     expiryDays : 1..MaxExpiryDays, forceShow : BOOLEAN,
     categories : CategoryDeclarations,
     onAccept : BOOLEAN, onReject : BOOLEAN, onChange : BOOLEAN,
     onLocationNotRequired : BOOLEAN,
     geolocationEndpoint : {Undefined, CustomEndpoint},
     locationEndpoint : {Undefined, CustomEndpoint}]

InitWith(userConfigs, modes, malformed) ==
    /\ now = T0
    /\ ticks = 0
    /\ lsMode \in modes
    /\ config \in { mergeConfig(u) : u \in userConfigs }
    /\ stored \in InitialStored(config, malformed)
    /\ cache = Null
    /\ cacheTimestamp = 0
    /\ pc = [s \in Starts |-> "idle"]
    /\ pend = [s \in Starts |-> Null]
    /\ out = [s \in Starts |-> NoOut]
    /\ dialogElement = FALSE
    /\ shown = FALSE
    /\ last = NoCall

(***************************************************************************)
(* The clock and the storage collaborator.                                 *)
(***************************************************************************)
\* The steps by which the model lets the clock advance: one millisecond, the
\* expiry window, and (while the resolver holds a cached result) one
\* millisecond less than the cache duration.
TickSteps(cfg) ==
    {1, ExpiryMs(cfg)}
    \cup (IF IsNull(cache) THEN {} ELSE {CACHE_DURATION - 1})

\* A timer that sweeps the stored item whenever the clock advances.
TickSweeping ==
    /\ ticks < MaxTicks
    /\ \E step \in TickSteps(config) : now' = now + step
    /\ ticks' = ticks + 1
    /\ stored' = getConsent(stored, lsMode, now', config.expiryDays).stored
    /\ UNCHANGED <<lsMode, config, cache, cacheTimestamp,
                   pc, pend, out, dialogElement, shown, last>>

Tick ==
    /\ ticks < MaxTicks
    /\ \E step \in TickSteps(config) : now' = now + step
    /\ ticks' = ticks + 1
    /\ UNCHANGED <<lsMode, stored, config, cache, cacheTimestamp,
                   pc, pend, out, dialogElement, shown, last>>

\* The quota of the origin fills up or is freed by other scripts.
QuotaChange ==
    /\ lsMode \in {"ok", "quota"}
    /\ lsMode' = IF lsMode = "ok" THEN "quota" ELSE "ok"
    /\ UNCHANGED <<now, ticks, stored, config, cache, cacheTimestamp,
                   pc, pend, out, dialogElement, shown, last>>

\* Date.now() read a second time inside one handler: the same millisecond
\* or the next.
Later(t) == { t + d : d \in { e \in 0..1 : ticks + e <= MaxTicks } }

(***************************************************************************)
(* Calls on the ConsentStorage of the instance.                            *)
(***************************************************************************)
Days == config.expiryDays

Categories(necessary, analytics, extra) ==
    [ id \in CatIds |-> CASE id = "necessary" -> necessary
                         [] id = "analytics" -> analytics
                         [] OTHER -> extra ]

\* Arguments the store is called with: category mappings (one that denies a
\* required id, one that omits it and names an undeclared id), and the
\* reason with or without location data.
SaveInputs ==
    { Categories("true", "false", "unset"),
      Categories("false", "true", "unset"),
      Categories("unset", "false", "true") }

LocationInputs ==
    { NoLocation("undefined"),
      LocationData(GeoResponse(FALSE, "United States", Undefined)) }

ReasonInputs ==
    { <<r, l>> \in Reasons \X LocationInputs :
        (r = "location_not_required") = (l.state = "value") }

SaveConsentCall ==
    \E categories \in SaveInputs, rl \in ReasonInputs :
        LET reason == rl[1]
            r == saveConsent(stored, lsMode, now, categories, reason, rl[2])
        IN /\ stored' = r.stored
           /\ last' = [NoCall EXCEPT !.op = "saveConsent",
                                     !.categories = categories,
                                     !.reason = reason, !.ret = r.ret]
           /\ UNCHANGED <<now, ticks, lsMode, config, cache, cacheTimestamp,
                          pc, pend, out, dialogElement, shown>>

GetConsentCall ==
    LET r == getConsent(stored, lsMode, now, Days)
    IN /\ stored' = r.stored
       /\ last' = [NoCall EXCEPT !.op = "getConsent", !.ret = r.ret,
                                 !.at = now, !.before = stored]
       /\ UNCHANGED <<now, ticks, lsMode, config, cache, cacheTimestamp,
                      pc, pend, out, dialogElement, shown>>

HasConsentCall ==
    LET r == hasConsent(stored, lsMode, now, Days)
    IN /\ stored' = r.stored
       /\ last' = [NoCall EXCEPT !.op = "hasConsent", !.value = r.ret,
                                 !.at = now, !.before = stored]
       /\ UNCHANGED <<now, ticks, lsMode, config, cache, cacheTimestamp,
                      pc, pend, out, dialogElement, shown>>

GetCategoryConsentCall ==
    \E id \in CatIds :
        LET r == getCategoryConsent(stored, lsMode, now, Days, id)
        IN /\ stored' = r.stored
           /\ last' = [NoCall EXCEPT !.op = "getCategoryConsent", !.id = id,
                                     !.value = r.ret, !.raised = r.raised,
                                     !.at = now, !.before = stored]
           /\ UNCHANGED <<now, ticks, lsMode, config, cache, cacheTimestamp,
                          pc, pend, out, dialogElement, shown>>

\* Arguments updateCategoryConsent is called with: a required id switched
\* off, an optional id switched on, and an id no category declares.
UpdateInputs ==
    { <<"necessary", FALSE>>, <<"analytics", TRUE>>, <<"extra", TRUE>> }

UpdateCategoryConsentCall ==
    \E iv \in UpdateInputs, t2 \in Later(now) :
        LET id == iv[1]
            value == iv[2]
            r == updateCategoryConsent(stored, lsMode, now, t2, Days, id, value)
        IN /\ stored' = r.stored
           /\ now' = t2
           /\ ticks' = ticks + (t2 - now)
           /\ last' = [NoCall EXCEPT !.op = "updateCategoryConsent",
                                     !.id = id, !.value = value,
                                     !.ret = r.ret, !.raised = r.raised]
           /\ UNCHANGED <<lsMode, config, cache, cacheTimestamp,
                          pc, pend, out, dialogElement, shown>>

\* clearConsent, which CookieDialog.resetConsent forwards to.
ClearConsentCall ==
    /\ stored' = clearConsent(stored, lsMode)
    /\ last' = [NoCall EXCEPT !.op = "clearConsent"]
    /\ UNCHANGED <<now, ticks, lsMode, config, cache, cacheTimestamp,
                   pc, pend, out, dialogElement, shown>>

(***************************************************************************)
(* CookieDialog.init (lines 156-225).  An init() call runs up to its await *)
(* in one step and from the await to its end in another.                   *)
(***************************************************************************)
Endpoint == EndpointOf(config.geolocationEndpoint)

\* Line 158 without the forceShow test.
ExistsIgnoringForceShow == hasConsent(stored, lsMode, now, Days).ret

Exists ==
    /\ ~config.forceShow
    /\ hasConsent(stored, lsMode, now, Days).ret

\* The item left by the condition of line 158.
AfterExists ==
    IF config.forceShow THEN stored
    ELSE hasConsent(stored, lsMode, now, Days).stored

Begin(s) == pc[s] \in {"idle", "done"}

\* What an init() call has done so far; atBegin is the record the store
\* would return at the moment the call begins, readAt the last clock value
\* the call has read.
BeginOut ==
    [NoOut EXCEPT !.atBegin = getConsent(stored, lsMode, now, Days).ret,
                  !.readAt = now]

\* The end of init() calling show() without testing autoShow.
ShowRegardless(s, st, o) ==
    LET sh == show(st, lsMode, now, config, dialogElement)
    IN /\ stored' = sh.stored
       /\ dialogElement' = sh.dialogElement
       /\ shown' = sh.shown
       /\ pc' = [pc EXCEPT ![s] = "done"]
       /\ out' = [out EXCEPT ![s] = [o EXCEPT !.path = "end",
                                              !.showCalled = TRUE]]

\* Lines 221-224.
ShowIfAutoShow(s, st, o) ==
    LET sh == show(st, lsMode, now, config, dialogElement)
    IN /\ stored' = IF config.autoShow THEN sh.stored ELSE st
       /\ dialogElement' = IF config.autoShow THEN sh.dialogElement
                           ELSE dialogElement
       /\ shown' = IF config.autoShow THEN sh.shown ELSE shown
       /\ pc' = [pc EXCEPT ![s] = "done"]
       /\ out' = [out EXCEPT ![s] = [o EXCEPT !.path = "end",
                                              !.showCalled = config.autoShow]]

\* Lines 158-164: consent on file and forceShow off.
InitExisting(s) ==
    /\ Begin(s)
    /\ Exists
    /\ \E t2 \in Later(now) :
         LET g == getConsent(AfterExists, lsMode, t2, Days)
             calls == ConfiguredCalls(config,
                        IF IsNull(g.ret) THEN <<>>
                        ELSE <<Call("onAccept", g.ret)>>)
         IN \E k \in ThrowChoices(calls) :
              /\ now' = t2
              /\ ticks' = ticks + (t2 - now)
              /\ stored' = g.stored
              /\ pc' = [pc EXCEPT ![s] = "done"]
              /\ out' = [out EXCEPT ![s] =
                           [BeginOut EXCEPT !.path = "existing",
                                            !.readAt = t2,
                                            !.hooks = Invoke(calls, k),
                                            !.raised = (k > 0)]]
    /\ UNCHANGED <<lsMode, config, cache, cacheTimestamp, pend,
                   dialogElement, shown, last>>

\* Lines 167-171 and 14-21: no consent on file, geolocation enabled; the
\* call suspends on checkLocation(), which answers from the cache or fetches.
InitCheckLocation(s) ==
    /\ Begin(s)
    /\ ~Exists
    /\ config.enableLocation
    /\ stored' = AfterExists
    /\ IF CacheValid(cache, cacheTimestamp, now)
       THEN /\ pc' = [pc EXCEPT ![s] = "awaitCache"]
            /\ pend' = [pend EXCEPT ![s] = cache]
            /\ out' = [out EXCEPT ![s] = BeginOut]
       ELSE /\ pc' = [pc EXCEPT ![s] = "awaitFetch"]
            /\ pend' = [pend EXCEPT ![s] = Null]
            /\ out' = [out EXCEPT ![s] = [BeginOut EXCEPT !.lookups = 1,
                                                           !.url = Endpoint]]
    /\ UNCHANGED <<now, ticks, lsMode, config, cache, cacheTimestamp,
                   dialogElement, shown, last>>

\* Lines 221-224 reached directly: no consent on file, geolocation off.
InitNoLocation(s) ==
    /\ Begin(s)
    /\ ~Exists
    /\ ~config.enableLocation
    /\ ShowIfAutoShow(s, AfterExists, BeginOut)
    /\ UNCHANGED <<now, ticks, lsMode, config, cache, cacheTimestamp,
                   pend, last>>

\* init() looking at the store again after the await, and returning when a
\* valid record has appeared meanwhile.
ResumeUnlessConsent(s, loc, o) ==
    IF hasConsent(stored, lsMode, now, Days).ret
    THEN /\ pc' = [pc EXCEPT ![s] = "done"]
         /\ out' = [out EXCEPT ![s] = [o EXCEPT !.path = "existing"]]
         /\ UNCHANGED <<stored, dialogElement, shown>>
    ELSE IF ~loc.inEU /\ ~config.forceShow
    THEN LET sv == saveConsent(stored, lsMode, now,
                               acceptAllConsent(config),
                               "location_not_required", LocationData(loc))
             calls == ConfiguredCalls(config,
                        << Call("onLocationNotRequired", LocationArg(loc)),
                           Call("onAccept", sv.ret) >>)
             o2 == [o EXCEPT !.writes = 1, !.written = sv.ret]
         IN \E k \in ThrowChoices(calls) :
              IF k = 0
              THEN /\ stored' = sv.stored
                   /\ pc' = [pc EXCEPT ![s] = "done"]
                   /\ out' = [out EXCEPT ![s] =
                                [o2 EXCEPT !.path = "exempt",
                                           !.hooks = Invoke(calls, k)]]
                   /\ UNCHANGED <<dialogElement, shown>>
              ELSE ShowIfAutoShow(s, sv.stored,
                                  [o2 EXCEPT !.hooks = Invoke(calls, k)])
    ELSE ShowIfAutoShow(s, stored, o)

\* Lines 172-219 and 221-224, resumed with the location that checkLocation
\* returned.
Resume(s, loc, o) ==
    IF ~loc.inEU /\ ~config.forceShow
    THEN LET sv == saveConsent(stored, lsMode, now,
                               acceptAllConsent(config),
                               "location_not_required", LocationData(loc))
             calls == ConfiguredCalls(config,
                        << Call("onLocationNotRequired", LocationArg(loc)),
                           Call("onAccept", sv.ret) >>)
             o2 == [o EXCEPT !.writes = 1, !.written = sv.ret]
         IN \E k \in ThrowChoices(calls) :
              IF k = 0
              THEN /\ stored' = sv.stored
                   /\ pc' = [pc EXCEPT ![s] = "done"]
                   /\ out' = [out EXCEPT ![s] =
                                [o2 EXCEPT !.path = "exempt",
                                           !.hooks = Invoke(calls, k)]]
                   /\ UNCHANGED <<dialogElement, shown>>
              ELSE \* the throw lands in the catch of line 216
                   ShowIfAutoShow(s, sv.stored,
                                  [o2 EXCEPT !.hooks = Invoke(calls, k)])
    ELSE ShowIfAutoShow(s, stored, o)

InitLookupDone(s) ==
    /\ pc[s] = "awaitFetch"
    /\ \E resp \in Responses :
         LET r == checkLocation(Endpoint, cache, cacheTimestamp, now, resp)
         IN /\ cache' = r.cache
            /\ cacheTimestamp' = r.cacheTimestamp
            /\ Resume(s, r.ret, [out[s] EXCEPT !.result = Obj(r.ret),
                                               !.failed = LookupThrows(resp)])
    /\ UNCHANGED <<now, ticks, lsMode, config, pend, last>>

InitCacheDone(s) ==
    /\ pc[s] = "awaitCache"
    /\ Resume(s, pend[s].obj, [out[s] EXCEPT !.result = pend[s]])
    /\ UNCHANGED <<now, ticks, lsMode, config, cache, cacheTimestamp,
                   pend, last>>

(***************************************************************************)
(* The prompt and the three decisions (lines 227-257 and 351-396).  The    *)
(* decisions are click handlers of the rendered, visible prompt.           *)
(***************************************************************************)
ShowCall ==
    LET sh == show(stored, lsMode, now, config, dialogElement)
    IN /\ stored' = sh.stored
       /\ dialogElement' = sh.dialogElement
       /\ shown' = sh.shown
       /\ UNCHANGED <<now, ticks, lsMode, config, cache, cacheTimestamp,
                      pc, pend, out, last>>

HideCall ==
    /\ shown
    /\ shown' = FALSE
    /\ UNCHANGED <<now, ticks, lsMode, stored, config, cache, cacheTimestamp,
                   pc, pend, out, dialogElement, last>>

DestroyCall ==
    /\ dialogElement
    /\ dialogElement' = FALSE
    /\ shown' = FALSE
    /\ UNCHANGED <<now, ticks, lsMode, stored, config, cache, cacheTimestamp,
                   pc, pend, out, last>>

\* A decision that invokes its hook before hide().
DecideHookBeforeHide(op, categories, reason, hook, withState) ==
    LET sv == saveConsent(stored, lsMode, now, categories, reason,
                          NoLocation("undefined"))
        calls == ConfiguredCalls(config,
                   <<Call(hook, IF withState THEN sv.ret ELSE NoArg)>>)
    IN /\ dialogElement /\ shown
       /\ \E k \in ThrowChoices(calls) :
            /\ last' = [NoCall EXCEPT !.op = op, !.categories = categories,
                                      !.reason = reason, !.ret = sv.ret,
                                      !.hooks = Invoke(calls, k),
                                      !.raised = (k > 0),
                                      !.seen = IF Len(calls) = 0 THEN NoSeen
                                               ELSE Seen(sv.stored, shown)]
            /\ shown' = (k > 0)
       /\ stored' = sv.stored
       /\ UNCHANGED <<now, ticks, lsMode, config, cache, cacheTimestamp,
                      pc, pend, out, dialogElement>>

\* saveConsent, hide(), then the hook: the shape shared by the decisions.
\* The hook is invoked over the item saveConsent left and the hidden prompt.
Decide(op, categories, reason, hook, withState) ==
    LET sv == saveConsent(stored, lsMode, now, categories, reason,
                          NoLocation("undefined"))
        hidden == FALSE
        calls == ConfiguredCalls(config,
                   <<Call(hook, IF withState THEN sv.ret ELSE NoArg)>>)
    IN /\ dialogElement /\ shown
       /\ \E k \in ThrowChoices(calls) :
            last' = [NoCall EXCEPT !.op = op, !.categories = categories,
                                   !.reason = reason, !.ret = sv.ret,
                                   !.hooks = Invoke(calls, k),
                                   !.raised = (k > 0),
                                   !.seen = IF Len(calls) = 0 THEN NoSeen
                                            ELSE Seen(sv.stored, hidden)]
       /\ stored' = sv.stored
       /\ shown' = hidden
       /\ UNCHANGED <<now, ticks, lsMode, config, cache, cacheTimestamp,
                      pc, pend, out, dialogElement>>

\* acceptAll invoking onChange, as saveSettings does.
acceptAllFiringOnChange ==
    Decide("acceptAll", acceptAllConsent(config), "user_accept",
           "onChange", TRUE)

acceptAll ==
    Decide("acceptAll", acceptAllConsent(config), "user_accept",
           "onAccept", TRUE)

\* rejectAll handing the written record to onReject.
rejectAllPassingState ==
    Decide("rejectAll", rejectAllConsent(config), "user_reject",
           "onReject", TRUE)

rejectAll ==
    Decide("rejectAll", rejectAllConsent(config), "user_reject",
           "onReject", FALSE)

saveSettings ==
    \E sel \in Checkboxes(config) :
        Decide("saveSettings", sel, "user_accept", "onChange", TRUE)

\* saveSettings clicked after a script has unchecked a required checkbox.
saveSettingsAfterScript ==
    \E sel \in ScriptedCheckboxes(config) \ Checkboxes(config) :
        Decide("saveSettings", sel, "user_accept", "onChange", TRUE)

\* GeolocationService.clearCache
ClearCacheCall ==
    /\ ~IsNull(cache)
    /\ cache' = Null
    /\ cacheTimestamp' = 0
    /\ UNCHANGED <<now, ticks, lsMode, stored, config, pc, pend, out,
                   dialogElement, shown, last>>

(***************************************************************************)
(* Calls on the GeolocationService itself: checkLocation() up to its await *)
(* and from the await to its return.                                       *)
(***************************************************************************)
CheckLocationCall(s) ==
    /\ pc[s] \in {"idle", "done"}
    /\ IF CacheValid(cache, cacheTimestamp, now)
       THEN /\ pc' = [pc EXCEPT ![s] = "awaitCache"]
            /\ pend' = [pend EXCEPT ![s] = cache]
            /\ out' = [out EXCEPT ![s] = [NoOut EXCEPT !.readAt = now]]
       ELSE /\ pc' = [pc EXCEPT ![s] = "awaitFetch"]
            /\ pend' = [pend EXCEPT ![s] = Null]
            /\ out' = [out EXCEPT ![s] = [NoOut EXCEPT !.readAt = now,
                                                       !.lookups = 1,
                                                       !.url = Endpoint]]
    /\ UNCHANGED <<now, ticks, lsMode, stored, config, cache, cacheTimestamp,
                   dialogElement, shown, last>>

CheckLocationFetched(s) ==
    /\ pc[s] = "awaitFetch"
    /\ \E resp \in Responses :
         LET r == checkLocation(Endpoint, cache, cacheTimestamp, now, resp)
         IN /\ cache' = r.cache
            /\ cacheTimestamp' = r.cacheTimestamp
            /\ out' = [out EXCEPT ![s] =
                         [@ EXCEPT !.path = "checkLocation",
                                   !.result = Obj(r.ret),
                                   !.failed = LookupThrows(resp),
                                   !.resp = resp, !.readAt = now]]
    /\ pc' = [pc EXCEPT ![s] = "done"]
    /\ UNCHANGED <<now, ticks, lsMode, stored, config, pend,
                   dialogElement, shown, last>>

CheckLocationCached(s) ==
    /\ pc[s] = "awaitCache"
    /\ out' = [out EXCEPT ![s] = [@ EXCEPT !.path = "checkLocation",
                                           !.result = pend[s],
                                           !.readAt = now]]
    /\ pc' = [pc EXCEPT ![s] = "done"]
    /\ UNCHANGED <<now, ticks, lsMode, stored, config, cache, cacheTimestamp,
                   pend, dialogElement, shown, last>>

(***************************************************************************)
(* Specifications.                                                         *)
(***************************************************************************)
\* Page load on a working localStorage: init() under every combination of
\* forceShow, enableLocation and autoShow, with the accept and region hooks
\* both set or both left out, over whatever an earlier page view left in
\* storage, with the prompt, an accepting user and resetConsent() beside it.
DialogConfigs ==
    { u \in UserConfigs :
        /\ u.expiryDays = 1 /\ u.onReject /\ u.onChange
        /\ u.onLocationNotRequired = u.onAccept
        /\ u.categories = getDefaultCategories
        /\ u.geolocationEndpoint = Undefined
        /\ u.locationEndpoint = Undefined }

Init ==
    /\ InitWith(DialogConfigs, {"ok"}, FALSE)
    /\ stored \in {Absent, [kind |-> "garbage"]} \cup WellFormedStored(config)

Next ==
    \/ Tick
    \/ InitExisting("first")
    \/ InitCheckLocation("first")
    \/ InitNoLocation("first")
    \/ InitLookupDone("first")
    \/ InitCacheDone("first")
    \/ ShowCall
    \/ HideCall
    \/ acceptAll
    \/ ClearConsentCall

Spec == Init /\ [][Next]_vars

\* The same page load under the assumption that a lookup that was started
\* answers or fails, and that a call resumed from the cache runs on.
SpecLive ==
    /\ Init
    /\ [][Next]_vars
    /\ WF_vars(InitLookupDone("first"))
    /\ WF_vars(InitCacheDone("first"))

\* The widget in use without geolocation: every hook set, init(), the
\* prompt, the three decisions, and the store's update and clear.
WidgetConfigs ==
    { u \in UserConfigs :
        /\ u.expiryDays = 1 /\ u.autoShow /\ ~u.forceShow /\ ~u.enableLocation
        /\ u.onAccept /\ u.onReject /\ u.onChange /\ u.onLocationNotRequired
        /\ u.geolocationEndpoint = Undefined
        /\ u.locationEndpoint = Undefined }

\* The record on file, if any, is one this configuration's Reject All wrote.
InitWidget ==
    /\ InitWith(WidgetConfigs, {"ok", "quota"}, FALSE)
    /\ stored \in {Absent, StoredRecord(T0 - 1000, STORAGE_VERSION,
                                         rejectAllConsent(config))}

NextWidget ==
    \/ InitExisting("first")
    \/ InitNoLocation("first")
    \/ ShowCall
    \/ HideCall
    \/ DestroyCall
    \/ acceptAll
    \/ rejectAll
    \/ saveSettings
    \/ ClearConsentCall
    \/ UpdateCategoryConsentCall

SpecWidget == InitWidget /\ [][NextWidget]_vars

\* The prompt and its three decisions on their own, on a store that works,
\* whose quota comes and goes, or that cannot be accessed at all, with a
\* page script that can reach the checkboxes.
InitDecisions ==
    /\ InitWith(WidgetConfigs, {"ok", "quota", "disabled"}, FALSE)
    /\ stored \in {Absent, StoredRecord(T0 - 1000, STORAGE_VERSION,
                                         rejectAllConsent(config))}

NextDecisions ==
    \/ Tick
    \/ QuotaChange
    \/ ShowCall
    \/ HideCall
    \/ acceptAll
    \/ rejectAll
    \/ saveSettings
    \/ saveSettingsAfterScript

SpecDecisions == InitDecisions /\ [][NextDecisions]_vars

\* The ConsentStorage class on its own, called with arbitrary arguments.
StoreConfigs ==
    { u \in UserConfigs :
        /\ ~u.enableLocation /\ u.autoShow /\ ~u.forceShow
        /\ u.onAccept /\ u.onReject /\ u.onChange /\ u.onLocationNotRequired
        /\ u.geolocationEndpoint = Undefined
        /\ u.locationEndpoint = Undefined
        /\ u.categories = getDefaultCategories }

InitStore == InitWith(StoreConfigs, {"ok", "quota", "disabled"}, TRUE)

NextStore ==
    \/ Tick
    \/ QuotaChange
    \/ SaveConsentCall
    \/ GetConsentCall
    \/ HasConsentCall
    \/ GetCategoryConsentCall
    \/ UpdateCategoryConsentCall
    \/ ClearConsentCall

SpecStore == InitStore /\ [][NextStore]_vars

\* The life of the stored item: the store's calls and the clock, on a
\* localStorage that works or cannot be accessed, starting from nothing or
\* from a well-formed record.
InitLifecycle ==
    /\ InitWith(StoreConfigs, {"ok", "disabled"}, FALSE)
    /\ stored \in {Absent} \cup WellFormedStored(config)

NextLifecycle ==
    \/ Tick
    \/ SaveConsentCall
    \/ GetConsentCall
    \/ HasConsentCall
    \/ GetCategoryConsentCall
    \/ UpdateCategoryConsentCall
    \/ ClearConsentCall

SpecLifecycle == InitLifecycle /\ [][NextLifecycle]_vars

\* A store instance reading what another instance left: the record on file
\* was written w days ago by an instance whose window was w days, so it is at
\* the last instant of its writer's window, and the reader's expiryDays is
\* any value of the range, the writer's or not.
WrittenUnder(w) == StoredRecord(T0 - w * MS_PER_DAY, STORAGE_VERSION, ScenarioC)

InitWindow ==
    /\ now = T0
    /\ ticks = 0
    /\ lsMode = "ok"
    /\ config \in { mergeConfig(u) : u \in StoreConfigs }
    /\ stored \in { WrittenUnder(w) : w \in 1..MaxExpiryDays }
    /\ cache = Null
    /\ cacheTimestamp = 0
    /\ pc = [s \in Starts |-> "idle"]
    /\ pend = [s \in Starts |-> Null]
    /\ out = [s \in Starts |-> NoOut]
    /\ dialogElement = FALSE
    /\ shown = FALSE
    /\ last = NoCall

NextWindow ==
    \/ Tick
    \/ SaveConsentCall
    \/ GetConsentCall
    \/ HasConsentCall

SpecWindow == InitWindow /\ [][NextWindow]_vars

\* The GeolocationService on its own, with the default and a custom endpoint.
GeoConfigs ==
    { u \in UserConfigs :
        /\ u.enableLocation /\ u.autoShow /\ ~u.forceShow /\ u.expiryDays = 1
        /\ u.onAccept /\ u.onReject /\ u.onChange /\ u.onLocationNotRequired
        /\ u.locationEndpoint = Undefined
        /\ u.categories = getDefaultCategories }

InitGeo ==
    /\ InitWith(GeoConfigs, {"ok"}, FALSE)
    /\ stored = Absent

NextGeo ==
    \/ Tick
    \/ CheckLocationCall("first")
    \/ CheckLocationFetched("first")
    \/ CheckLocationCached("first")
    \/ ClearCacheCall

SpecGeo == InitGeo /\ [][NextGeo]_vars

\* Page load with geolocation on and the lookup endpoint chosen by the
\* caller: left out, given as geolocationEndpoint, or given under the name
\* locationEndpoint.
EndpointConfigs ==
    { u \in UserConfigs :
        /\ u.enableLocation /\ ~u.forceShow /\ u.expiryDays = 1
        /\ u.onAccept /\ u.onReject /\ u.onChange /\ u.onLocationNotRequired
        /\ u.categories = getDefaultCategories
        /\ (u.geolocationEndpoint = Undefined \/ u.locationEndpoint = Undefined) }

InitEndpoint ==
    /\ InitWith(EndpointConfigs, {"ok"}, FALSE)
    /\ stored \in {Absent, StoredRecord(T0 - 1000, STORAGE_VERSION, ScenarioC)}

NextEndpoint ==
    \/ Tick
    \/ InitExisting("first")
    \/ InitCheckLocation("first")
    \/ InitLookupDone("first")
    \/ InitCacheDone("first")
    \/ ClearConsentCall
    \/ ClearCacheCall

SpecEndpoint == InitEndpoint /\ [][NextEndpoint]_vars

\* Two init() calls on one instance with geolocation on, each made once, the
\* second possibly while the first is still waiting for its lookup, beside
\* the prompt opened through show() and a user who decides in it.
ConcurrentConfigs ==
    { u \in UserConfigs :
        /\ u.enableLocation /\ u.autoShow /\ ~u.forceShow /\ u.expiryDays = 1
        /\ u.onAccept /\ u.onReject /\ u.onChange /\ u.onLocationNotRequired
        /\ u.categories = getDefaultCategories
        /\ u.geolocationEndpoint = Undefined
        /\ u.locationEndpoint = Undefined }

InitConcurrent ==
    /\ InitWith(ConcurrentConfigs, {"ok"}, FALSE)
    /\ stored = Absent

NextConcurrent ==
    \/ \E s \in Starts :
         \/ pc[s] = "idle" /\ InitExisting(s)
         \/ pc[s] = "idle" /\ InitCheckLocation(s)
         \/ InitLookupDone(s)
         \/ InitCacheDone(s)
    \/ ShowCall
    \/ acceptAll
    \/ rejectAll
    \/ saveSettings

SpecConcurrent == InitConcurrent /\ [][NextConcurrent]_vars

(***************************************************************************)
(* Properties.                                                             *)
(***************************************************************************)
FirstDone == pc["first"] = "done"

NoHookThrew(o) == \A i \in DOMAIN o.hooks : ~o.hooks[i].threw

Returned(hook, arg) == [hook |-> hook, arg |-> arg, threw |-> FALSE]

\* C forced: every required category true, the others as given.
ForceRequired(cfg, C) ==
    [ id \in CatIds |->
        IF id \in RequiredIds(cfg.categories) THEN "true" ELSE C[id] ]

C3_FailSafeResolver ==
    /\ [](LET o == out["first"]
          IN (FirstDone /\ o.path = "checkLocation" /\ o.failed)
             => /\ o.result = Obj([inEU |-> TRUE, country |-> "undefined",
                                   region |-> "undefined"])
                /\ ~o.raised
                /\ (IsNull(cache) \/ now - cacheTimestamp >= 3600000))
    /\ [][(FirstDone /\ out["first"].failed /\ pc'["first"] # "done")
          => (pc'["first"] = "awaitFetch" /\ out'["first"].lookups = 1)]_vars

C3_Witness ==
    /\ FirstDone
    /\ out["first"].path = "checkLocation"
    /\ out["first"].failed
    /\ out["first"].resp.kind = "httpError"
    /\ out["first"].result.obj.inEU

\* The body parsed to an object that lacks the field the adapter reads.
MalformedBody(endpoint, resp) ==
    /\ resp.kind = "data"
    /\ IF endpoint = "https://ipapi.co/json/"
       THEN resp.data.country_code = "missing"
       ELSE resp.data.inEU = "missing" /\ resp.data.in_eu = "missing"

\* C4: a checkLocation() whose lookup answers with a success status and a
\* body that lacks the expected field returns inEU true.
C4_MalformedResponseFailSafe ==
    LET o == out["first"]
    IN (FirstDone /\ o.path = "checkLocation" /\ MalformedBody(Endpoint, o.resp))
       => o.result.obj.inEU

C7_WriteReadRoundTrip ==
    (/\ last.op = "saveConsent"
     /\ stored = JSONstringify(last.ret.obj)
     /\ now = last.ret.obj.timestamp)
    => LET g == getConsent(stored, lsMode, now, Days).ret
           forced == ForceRequired(config, last.categories)
       IN /\ ~IsNull(g)
          /\ g.obj.reason = last.reason
          /\ g.obj.categories = forced
          /\ last.ret.obj.reason = last.reason
          /\ last.ret.obj.categories = forced

\* C8: every record in storage maps every required category to true.
C8_RequiredCategoryInvariant ==
    stored.kind = "json"
    => \A id \in RequiredIds(config.categories) :
         stored.obj.categories[id] = "true"

\* C9: getConsent() on a stored record of the current version with
\* timestamp t returns that record and leaves it in storage when called at a
\* time up to and including t + expiryDays * 86400000, and returns null and
\* erases the item when called at any later time.
C9_ExpiryBoundary ==
    (/\ last.op = "getConsent"
     /\ lsMode # "disabled"
     /\ last.before.kind = "json"
     /\ last.before.obj.version = "1.0.0"
     /\ last.before.obj.timestamp # NoTs)
    => IF last.at <= last.before.obj.timestamp + config.expiryDays * 86400000
       THEN last.ret = Obj(last.before.obj) /\ stored = last.before
       ELSE IsNull(last.ret) /\ stored = Absent

C9_Witness ==
    /\ last.op = "getConsent"
    /\ last.before.kind = "json"
    /\ last.before.obj.version = "1.0.0"
    /\ last.at = last.before.obj.timestamp + config.expiryDays * 86400000 + 1
    /\ IsNull(last.ret)
    /\ stored = Absent

MalformedValue(st) ==
    \/ st.kind \in {"garbage", "nullText"}
    \/ /\ st.kind = "json"
       /\ (st.obj.timestamp = NoTs \/ st.obj.categories = MissingCats)

\* C11: getConsent() on a stored value that fails to parse or lacks a record
\* field, and getConsent() when localStorage.getItem throws, does not raise
\* and returns null.
C11_MalformedTreatedAbsent ==
    (/\ last.op = "getConsent"
     /\ (lsMode = "disabled" \/ MalformedValue(last.before)))
    => IsNull(last.ret) /\ ~last.raised

\* C12: clearConsent() does not raise, also when localStorage.removeItem
\* throws; hasConsent() is false after it; and a second clearConsent() right
\* after the first leaves storage as the first left it.
C12_IdempotentClear ==
    /\ [](last.op = "clearConsent"
          => /\ ~last.raised
             /\ ~hasConsent(stored, lsMode, now, Days).ret)
    /\ [][(last.op = "clearConsent" /\ ClearConsentCall)
          => (stored' = stored /\ ~last'.raised
              /\ ~hasConsent(stored', lsMode', now', Days).ret)]_vars

C12_Witness ==
    /\ last.op = "clearConsent"
    /\ lsMode = "disabled"
    /\ stored.kind = "json"
    /\ stored.obj.version = "1.0.0"
    /\ now <= stored.obj.timestamp + config.expiryDays * 86400000

\* The item a successful setItem leaves for the record w: its JSON text,
\* in which an undefined locationData does not appear.
Persisted(w) ==
    [kind |-> "json",
     obj |-> [w.obj EXCEPT !.locationData =
                [state |-> "missing", country |-> "missing",
                 region |-> "missing", inEU |-> FALSE,
                 detectionMethod |-> "missing"]]]

\* C13: acceptAll() builds a record that maps exactly the declared ids, each
\* to true, with reason user_accept, no locationData and timestamp now;
\* stores it when setItem succeeds; hides the prompt; and invokes onAccept,
\* and no other hook, with that record.
C13_AcceptAll ==
    [][acceptAll =>
         LET w == last'.ret
         IN /\ last'.op = "acceptAll"
            /\ ~IsNull(w)
            /\ \A id \in CatIds :
                 w.obj.categories[id] =
                   IF id \in DeclaredIds(config.categories) THEN "true"
                   ELSE "unset"
            /\ w.obj.reason = "user_accept"
            /\ w.obj.locationData.state = "undefined"
            /\ w.obj.timestamp = now
            /\ (lsMode = "ok") => (stored' = Persisted(w))
            /\ ~shown'
            /\ Len(last'.hooks) = 1
            /\ last'.hooks[1].hook = "onAccept"
            /\ last'.hooks[1].arg = w]_vars

C13_Witness ==
    /\ last.op = "acceptAll"
    /\ ~shown
    /\ dialogElement
    /\ stored.kind = "json"
    /\ stored.obj.reason = "user_accept"
    /\ stored.obj.categories["necessary"] = "true"
    /\ stored.obj.categories["analytics"] = "true"
    /\ stored.obj.timestamp = now
    /\ Len(last.hooks) = 1
    /\ ~last.hooks[1].threw

C15_SaveSettings ==
    [][(saveSettings \/ saveSettingsAfterScript) =>
         LET w == last'.ret
         IN /\ last'.op = "saveSettings"
            /\ ~IsNull(w)
            /\ \A id \in CatIds :
                 w.obj.categories[id] =
                   IF id \in RequiredIds(config.categories) THEN "true"
                   ELSE last'.categories[id]
            /\ w.obj.reason = "user_accept"
            /\ ~shown'
            /\ Len(last'.hooks) = 1
            /\ last'.hooks[1].hook = "onChange"
            /\ last'.hooks[1].arg = w]_vars

\* The stored item is a well-formed record of the current version that has
\* not expired at time t, and localStorage can be read.
ValidRecord(st, t) ==
    /\ lsMode # "disabled"
    /\ st.kind = "json"
    /\ st.obj.version = "1.0.0"
    /\ st.obj.timestamp # NoTs
    /\ st.obj.categories # MissingCats
    /\ t <= st.obj.timestamp + config.expiryDays * 86400000

\* There is no record to return: nothing stored, text that is no record, a
\* store that cannot be read, or a record that is expired or of another
\* version.
NoValidRecord(st, t) ==
    \/ lsMode = "disabled"
    \/ st.kind \in {"absent", "garbage", "nullText"}
    \/ /\ st.kind = "json"
       /\ \/ st.obj.version # "1.0.0"
          \/ /\ st.obj.timestamp # NoTs
             /\ t > st.obj.timestamp + config.expiryDays * 86400000

\* C16: updateCategoryConsent(id, value) with no valid record returns null
\* and leaves the stored item as it was; with a valid record it stores and
\* returns that record with categories[id] = value and timestamp = now, and
\* everything else unchanged.
C16_UpdateCategory ==
    [][UpdateCategoryConsentCall =>
         /\ NoValidRecord(stored, now)
              => (IsNull(last'.ret) /\ stored' = stored)
         /\ ValidRecord(stored, now)
              => /\ last'.ret =
                      Obj([stored.obj EXCEPT
                             !.categories[last'.id] =
                                 IF last'.value THEN "true" ELSE "false",
                             !.timestamp = now'])
                 /\ stored' = [kind |-> "json", obj |-> last'.ret.obj]]_vars

\* C17: when localStorage.setItem throws, the saveConsent of a decision does
\* not raise, leaves the stored item as it was and returns a record with the
\* requested categories and reason and timestamp now; the decision hides the
\* prompt, and acceptAll() invokes onAccept with a record in which every
\* declared category is true.
C17_FailOpenWrite ==
    [][((acceptAll \/ rejectAll \/ saveSettings) /\ lsMode # "ok") =>
         LET w == last'.ret
         IN /\ ~IsNull(w)
            /\ w.obj.categories = last'.categories
            /\ w.obj.reason = last'.reason
            /\ w.obj.timestamp = now
            /\ stored' = stored
            /\ ~shown'
            /\ Len(last'.hooks) = 1
            /\ last'.raised = last'.hooks[1].threw
            /\ (last'.op = "acceptAll")
                 => /\ last'.hooks[1].hook = "onAccept"
                    /\ last'.hooks[1].arg = w
                    /\ \A id \in DeclaredIds(config.categories) :
                         w.obj.categories[id] = "true"]_vars

C17_Witness ==
    /\ last.op = "acceptAll"
    /\ lsMode = "quota"
    /\ stored = Absent
    /\ dialogElement
    /\ ~shown
    /\ last.ret.obj.timestamp = now
    /\ last.hooks[1].hook = "onAccept"
    /\ last.hooks[1].arg = last.ret
    /\ ~last.raised
    /\ last.ret.obj.categories["analytics"] = "true"

\* C18: whenever a hook invoked by init() or by a decision throws, the
\* exception leaves the operation that invoked the hook.
C18_HookExceptionsPropagate ==
    /\ FirstDone
         => ((\E i \in DOMAIN out["first"].hooks : out["first"].hooks[i].threw)
               => out["first"].raised)
    /\ (\E i \in DOMAIN last.hooks : last.hooks[i].threw) => last.raised

\* C19: hasConsent() returns true exactly when getConsent() would return a
\* record; getCategoryConsent(id) does not raise and returns true exactly
\* when getConsent() would return a record whose categories[id] is true.
C19_QueriesAgreeWithRead ==
    LET read == getConsent(last.before, lsMode, last.at, Days).ret
    IN /\ (last.op = "hasConsent") => (last.value = ~IsNull(read))
       /\ (last.op = "getCategoryConsent")
            => /\ ~last.raised
               /\ last.value = (/\ ~IsNull(read)
                                /\ read.obj.categories[last.id] = "true")

\* C20: a successful lookup that completes at time t caches its result with
\* timestamp t; a checkLocation() begun while a result is cached and the
\* clock is before t + 3600000 returns that result without a lookup, and one
\* begun at or after t + 3600000, or with nothing cached, starts a lookup;
\* the cached result is dropped by clearCache() and by nothing else.
C20_LookupCache ==
    /\ [][(CheckLocationFetched("first") /\ ~out'["first"].failed)
          => (cache' = out'["first"].result /\ cacheTimestamp' = now)]_vars
    /\ [][CheckLocationCall("first")
          => IF ~IsNull(cache) /\ now < cacheTimestamp + 3600000
             THEN /\ pc'["first"] = "awaitCache"
                  /\ pend'["first"] = cache
                  /\ out'["first"].lookups = 0
             ELSE /\ pc'["first"] = "awaitFetch"
                  /\ out'["first"].lookups = 1]_vars
    /\ [][CheckLocationCached("first")
          => (out'["first"].result = pend["first"]
              /\ out'["first"].lookups = 0)]_vars
    /\ [][ClearCacheCall => IsNull(cache')]_vars
    /\ [][(~IsNull(cache) /\ IsNull(cache')) => ClearCacheCall]_vars

C20_Witness ==
    /\ FirstDone
    /\ out["first"].path = "checkLocation"
    /\ out["first"].lookups = 0
    /\ ~IsNull(cache)
    /\ out["first"].result = cache
    /\ now = cacheTimestamp + 3599999

\* The 27 member states of the European Union, and the four other codes the
\* default provider's branch lists.
EUMemberStates ==
    { "AT", "BE", "BG", "HR", "CY", "CZ", "DK", "EE", "FI", "FR", "DE", "GR",
      "HU", "IE", "IT", "LV", "LT", "LU", "MT", "NL", "PL", "PT", "RO", "SK",
      "SI", "ES", "SE" }

GDPRRegionCodes == EUMemberStates \cup {"IS", "LI", "NO", "GB"}

C22_CustomEndpointCountryCode ==
    LET o == out["first"]
    IN (/\ FirstDone
        /\ config.geolocationEndpoint = "https://api.mysite.com/geolocation"
        /\ IsNull(o.atBegin)
        /\ ~IsNull(o.result)
        /\ ~o.failed
        /\ o.result.obj.country = "DE")
       => /\ o.result.obj.inEU
          /\ o.writes = 0
          /\ o.hooks = <<>>
          /\ o.path = "end"
          /\ o.showCalled = config.autoShow

\* C23: with the locationEndpoint option supplied, every lookup of an
\* init() is a fetch of the supplied URL.
C23_EndpointOverride ==
    LET o == out["first"]
    IN (config.locationEndpoint # "undefined" /\ o.lookups > 0)
       => /\ o.url = config.locationEndpoint
          /\ o.url # "https://ipapi.co/json/"

\* The stored item is a record past its expiry at time t, or of another
\* schema version.
Lapsed(st, t) ==
    /\ st.kind = "json"
    /\ \/ st.obj.version # "1.0.0"
       \/ /\ st.obj.timestamp # NoTs
          /\ t > st.obj.timestamp + config.expiryDays * 86400000

ReadTypeCall ==
    GetConsentCall \/ HasConsentCall \/ GetCategoryConsentCall
    \/ UpdateCategoryConsentCall

\* C24: the stored item goes from absent to present only in a saveConsent();
\* getConsent, hasConsent, getCategoryConsent, clearConsent and
\* updateCategoryConsent on an absent item leave it absent; the item changes
\* in no step other than a call of the store, so the passing of time leaves
\* an expired record in storage; and an expired or version-mismatched record
\* is removed only by the read inside a read-type call or by an explicit
\* clearConsent().
C24_RecordLifecycle ==
    /\ [][(stored.kind = "absent" /\ stored'.kind # "absent")
          => SaveConsentCall]_vars
    /\ [][(stored.kind = "absent" /\ (ReadTypeCall \/ ClearConsentCall))
          => stored'.kind = "absent"]_vars
    /\ [][(stored' # stored)
          => (SaveConsentCall \/ ReadTypeCall \/ ClearConsentCall)]_vars
    /\ [][(Lapsed(stored, now) /\ stored' = Absent)
          => (ReadTypeCall \/ ClearConsentCall)]_vars
    /\ [][(Lapsed(stored, now) /\ lsMode # "disabled" /\ ReadTypeCall)
          => stored' = Absent]_vars

C24_Witness ==
    /\ stored.kind = "json"
    /\ stored.obj.version = "1.0.0"
    /\ stored.obj.timestamp # NoTs
    /\ now > stored.obj.timestamp + config.expiryDays * 86400000
    /\ last.op = "saveConsent"
    /\ ticks > 0

\* C25: getConsent(), hasConsent() and getCategoryConsent() on a valid
\* record, and the two reads init() makes of one (lines 158-159), leave the
\* stored item exactly as it was, timestamp included; a stored record gets a
\* timestamp it did not have only in a saveConsent() or an
\* updateCategoryConsent(), which set it to the time of the call.
C25_FixedFromCreationExpiry ==
    /\ [][(ValidRecord(stored, now)
           /\ (GetConsentCall \/ HasConsentCall \/ GetCategoryConsentCall))
          => stored' = stored]_vars
    /\ [](\A t2 \in Later(now) :
            ValidRecord(stored, t2)
            => getConsent(hasConsent(stored, lsMode, now, Days).stored,
                          lsMode, t2, Days).stored = stored)
    /\ [][(/\ stored'.kind = "json"
           /\ \/ stored.kind # "json"
              \/ stored'.obj.timestamp # stored.obj.timestamp)
          => /\ SaveConsentCall \/ UpdateCategoryConsentCall
             /\ stored'.obj.timestamp = now']_vars

C25_Witness ==
    /\ last.op = "getCategoryConsent"
    /\ last.value
    /\ last.before = stored
    /\ stored.kind = "json"
    /\ stored.obj.version = "1.0.0"
    /\ last.at = stored.obj.timestamp + config.expiryDays * 86400000
    /\ last.at > stored.obj.timestamp

\* C26: a record in storage carries locationData exactly when its reason is
\* location_not_required; the records acceptAll(), rejectAll() and
\* saveSettings() build and store carry none.
C26_RegionContextWithReason ==
    /\ [](stored.kind = "json"
          => ((stored.obj.locationData.state = "value")
              <=> (stored.obj.reason = "location_not_required")))
    /\ [][(acceptAll \/ rejectAll \/ saveSettings)
          => /\ last'.ret.obj.locationData.state = "undefined"
             /\ last'.ret.obj.reason \in {"user_accept", "user_reject"}
             /\ stored'.kind = "json"
             /\ stored'.obj.locationData.state = "missing"
             /\ stored'.obj.reason = last'.ret.obj.reason]_vars
    /\ [](\A s \in {"first", "second"} :
            out[s].writes = 1
            => /\ out[s].written.obj.reason = "location_not_required"
               /\ out[s].written.obj.locationData.state = "value"
               /\ out[s].written.obj.locationData.detectionMethod
                    = "ip_geolocation")

C26_Witness ==
    /\ stored.kind = "json"
    /\ stored.obj.reason = "location_not_required"
    /\ stored.obj.locationData.state = "value"
    /\ stored.obj.locationData.country = "United States"
    /\ ~stored.obj.locationData.inEU
    /\ out["first"].path = "exempt"
    /\ last.op = "rejectAll"

\* An init() call that went through its lookup to the auto-accept path and
\* whose hooks returned.
AutoAccepted(o) ==
    /\ o.lookups = 1
    /\ ~IsNull(o.result)
    /\ ~o.result.obj.inEU
    /\ \A i \in DOMAIN o.hooks : ~o.hooks[i].threw

\* C27: an init() begun with no valid record while another init() of the
\* same instance waits for its lookup starts a lookup of its own; and when
\* both lookups answer that consent is not required, each call writes a
\* location_not_required record and each invokes onLocationNotRequired and
\* then onAccept.
C27_ConcurrentStartsNotDeduplicated ==
    /\ [][(/\ pc["first"] = "awaitFetch"
           /\ pc["second"] = "idle"
           /\ ~hasConsent(stored, lsMode, now, Days).ret
           /\ pc'["second"] # "idle")
          => /\ pc'["second"] = "awaitFetch"
             /\ out'["second"].lookups = 1]_vars
    /\ [](\A s \in {"first", "second"} :
            (pc[s] = "done" /\ AutoAccepted(out[s]))
            => /\ out[s].writes = 1
               /\ out[s].written.obj.reason = "location_not_required"
               /\ Len(out[s].hooks) = 2
               /\ out[s].hooks[1].hook = "onLocationNotRequired"
               /\ out[s].hooks[2].hook = "onAccept"
               /\ out[s].hooks[2].arg = out[s].written)

C27_Witness ==
    /\ pc["first"] = "done"
    /\ pc["second"] = "done"
    /\ AutoAccepted(out["first"])
    /\ AutoAccepted(out["second"])
    /\ out["first"].writes = 1
    /\ out["second"].writes = 1
    /\ Len(out["first"].hooks) = 2
    /\ Len(out["second"].hooks) = 2
    /\ IsNull(out["first"].atBegin)
    /\ IsNull(out["second"].atBegin)

\* The stored item is a record of a user's decision that is valid at time t.
UserDecisionOnFile(st, t) ==
    /\ st.kind = "json"
    /\ st.obj.version = "1.0.0"
    /\ st.obj.reason \in {"user_accept", "user_reject"}
    /\ t <= st.obj.timestamp + config.expiryDays * 86400000

\* C29: when an init() resumes from its lookup and the store holds the valid
\* record of a decision the user made meanwhile, the init() leaves that
\* record in storage.
C29_AutoDecisionNeverOverrides ==
    [][((\E s \in {"first", "second"} : InitLookupDone(s) \/ InitCacheDone(s))
        /\ UserDecisionOnFile(stored, now))
       => stored' = stored]_vars

\* The step in which an init() call comes to its end after a lookup or
\* without one.
InitEnds ==
    InitNoLocation("first") \/ InitLookupDone("first") \/ InitCacheDone("first")

C30_AutoAcceptPromptExclusive ==
    LET o == out["first"]
    IN (FirstDone /\ o.writes = 1)
       => /\ ~o.showCalled
          /\ config.onAccept
               => \E i \in DOMAIN o.hooks :
                    /\ o.hooks[i].hook = "onAccept"
                    /\ o.hooks[i].arg = o.written

\* C31: with forceShow off, autoShow on and onAccept configured, an init()
\* that has returned has invoked onAccept with a record or has shown the
\* prompt.
C31_StartNeverEndsSilently ==
    LET o == out["first"]
    IN (/\ FirstDone
        /\ ~o.raised
        /\ ~config.forceShow
        /\ config.autoShow
        /\ config.onAccept)
       => \/ o.showCalled
          \/ \E i \in DOMAIN o.hooks :
               /\ o.hooks[i].hook = "onAccept"
               /\ ~IsNull(o.hooks[i].arg)

\* How many of the three outcomes an init() call has had: it took the
\* existing-consent path, it wrote a location_not_required record, it
\* showed the prompt.
Outcomes(o) ==
    (IF o.path = "existing" THEN 1 ELSE 0)
    + (IF o.writes > 0 THEN 1 ELSE 0)
    + (IF o.showCalled THEN 1 ELSE 0)

\* C32: an init() that waits for its lookup eventually ends, and an init()
\* that has ended has had exactly one of the three outcomes.
C32_StartReachesOutcome ==
    /\ (pc["first"] \in {"awaitFetch", "awaitCache"}) ~> FirstDone
    /\ [](FirstDone => Outcomes(out["first"]) = 1)

\* C33: updateCategoryConsent(id, value) on a valid record returns that
\* record with categories[id] = value and a new timestamp, also when
\* localStorage.setItem throws, and a setItem that throws leaves the stored
\* item as it was; it returns null only when there is no valid record.
C33_UpdateDegradesToMemory ==
    [][UpdateCategoryConsentCall =>
         /\ ValidRecord(stored, now)
              => /\ last'.ret =
                      Obj([stored.obj EXCEPT
                             !.categories[last'.id] =
                                 IF last'.value THEN "true" ELSE "false",
                             !.timestamp = now'])
                 /\ (lsMode # "ok") => (stored' = stored)
         /\ IsNull(last'.ret) => ~ValidRecord(stored, now)]_vars

\* C34: right after acceptAll(), rejectAll() or saveSettings(), getConsent()
\* returns the record that call built or null, never an older record; and
\* right after rejectAll(), getCategoryConsent(id) is false for every
\* declared id that is not required.
C34_NoReplacedChoiceReported ==
    [][(acceptAll \/ rejectAll \/ saveSettings) =>
         LET g == getConsent(stored', lsMode', now', Days).ret
         IN /\ \/ IsNull(g)
               \/ /\ g.obj.timestamp = last'.ret.obj.timestamp
                  /\ g.obj.categories = last'.ret.obj.categories
                  /\ g.obj.reason = last'.ret.obj.reason
            /\ (last'.op = "rejectAll")
                 => \A id \in DeclaredIds(config.categories)
                               \ RequiredIds(config.categories) :
                      ~getCategoryConsent(stored', lsMode', now', Days, id).ret]_vars

C36_DecisionOrdering_Original ==
    [][(acceptAll \/ rejectAll \/ saveSettings) =>
         /\ last'.seen.invoked
         /\ ~last'.seen.shown
         /\ last'.seen.stored = stored'
         /\ last'.seen.stored = Persisted(last'.ret)
         /\ getConsent(last'.seen.stored, lsMode, now, Days).ret
              = Obj(Persisted(last'.ret).obj)
         /\ ~shown']_vars

\* C36 amended: the hook is invoked after saveConsent and after hide():
\* whether it returns or throws, it finds the prompt hidden and the stored
\* item as saveConsent left it; when setItem succeeded that item is the
\* record of this decision and a getConsent() made inside the hook returns
\* it, and when setItem threw the item is what it was before the decision.
C36_DecisionOrdering ==
    [][(acceptAll \/ rejectAll \/ saveSettings) =>
         /\ last'.seen.invoked
         /\ ~last'.seen.shown
         /\ last'.seen.stored = stored'
         /\ IF lsMode = "ok"
            THEN /\ last'.seen.stored = Persisted(last'.ret)
                 /\ getConsent(last'.seen.stored, lsMode, now, Days).ret
                      = Obj(Persisted(last'.ret).obj)
            ELSE last'.seen.stored = stored
         /\ ~shown']_vars

C36_Witness ==
    /\ last.op = "rejectAll"
    /\ last.raised
    /\ last.hooks[1].threw
    /\ last.seen.invoked
    /\ ~last.seen.shown
    /\ last.seen.stored = stored
    /\ stored.kind = "json"
    /\ stored.obj.reason = "user_reject"
    /\ stored.obj.timestamp = now
    /\ ~shown

====
